---- MODULE Spec2Model ----
(***************************************************************************)
(* Model of nebula_highspeed.py: main launches one worker_loop per token   *)
(* of tokens.txt on one asyncio event loop; each worker_loop repeats       *)
(* fetch_task -> process_task -> submit_results -> sleep.  A worker's pc   *)
(* is the await it is suspended at; one action is one event-loop step of   *)
(* one coroutine (from the resumption of an await to the next await).      *)
(* The remote service is the environment: the await of a request resumes   *)
(* with any response of a small alphabet of JSON shapes, or the request    *)
(* fails (timeout, connection error, body that is not a JSON object).      *)
(* event records which await the last step resumed and with what.          *)
(***************************************************************************)
EXTENDS Integers, Sequences, FiniteSets, TLC

\* Bound: the service hands out at most MaxTasks task objects per worker.
MaxTasks == 1
\* The fingerprints tried: zero, and one that is not (compute_hash_mod is a
\* SHA-256 reduced modulo 10**7; the model takes its value as an input).
Fingerprints == {0, 1}

VARIABLES
    tokens_txt,   \* the file tokens.txt: a sequence of lines, or missing
    mainPc,       \* position of main()
    tokens,       \* main's list `tokens`; worker w runs worker_loop(tokens[w])
    pc,           \* pc[w]: the await worker w is suspended at, or how it ended
    success, fail, total,   \* worker_loop's counters
    task_data,    \* worker_loop's variable task_data
    payload,      \* payload[w]: the body of w's pending submit request
    issued,       \* issued[w]: task objects the service has handed to w so far
    computed,     \* computed[w]: task_ids of the tasks process_task was called with
    submitted,    \* submitted[w]: task_ids of the submit requests sent, in order
    sink,         \* expired_tokens.txt: the lines appended, in order
    event,        \* the step just taken: the worker, the await that resumed, and
                  \* the response it resumed with
    summary,      \* summary[w]: the summary lines worker w has printed
    tally,        \* tally[w]: what became of w's tasks, as the service and the
                  \* classification saw it (not a variable of the program)
    gen           \* a call of generate_matrix: its arguments and its result

vars == <<tokens_txt, mainPc, tokens, pc, success, fail, total, task_data,
          payload, issued, computed, submitted, sink, event, summary, tally, gen>>

wvars == <<pc, success, fail, total, task_data, payload, issued, computed, submitted,
           summary, tally>>

----------------------------------------------------------------------------
\* JSON values of the responses

TaskKeys == {"seed1", "seed2", "matrix_size", "task_id"}

\* JSON null, and Python's None for task_data
Null == [kind |-> "null", keys |-> {}, task_id |-> 0, matrix_size |-> 0, calc_status |-> FALSE]

\* the key "data" is not in the response
Absent == [kind |-> "absent", keys |-> {}, task_id |-> 0, matrix_size |-> 0, calc_status |-> FALSE]

\* a task object with the keys `keys`, task_id id and matrix_size size
TaskObj(keys, id, size) ==
    [kind |-> "object", keys |-> keys, task_id |-> id, matrix_size |-> size, calc_status |-> FALSE]

\* the data object of a submit response; hasStatus: the key calc_status is there
StatusObj(hasStatus, status) ==
    [kind |-> "object", keys |-> IF hasStatus THEN {"calc_status"} ELSE {},
     task_id |-> 0, matrix_size |-> 0, calc_status |-> status]

\* the task objects the service can put in its k-th hand-out: complete, lacking
\* one key, or with a matrix_size numpy rejects (negative)
TaskObjects(k) ==
    {TaskObj(TaskKeys, k, 2), TaskObj(TaskKeys, k, -1)}
        \cup {TaskObj(TaskKeys \ {key}, k, 2) : key \in TaskKeys}

\* a response: exc = the request raised (timeout, connection failure, body that
\* is no JSON object); otherwise the fields error, code and data of the body
Response(exc, error, code, data) ==
    [exc |-> exc, error |-> error, code |-> code, data |-> data]

NetworkError == Response(TRUE, "", 1, Absent)

Errors == {"", "jwt auth err"}
Codes == {-429, 0, 1}

\* what can resume the await of a fetch request of a worker that was handed k
\* task objects so far: every code with data absent, null or a complete task,
\* code 0 with each malformed task, and the auth error next to each code
FetchResponses(k) ==
    LET next == IF k < MaxTasks THEN {TaskObj(TaskKeys, k + 1, 2)} ELSE {}
        odd == IF k < MaxTasks THEN TaskObjects(k + 1) ELSE {}
    IN  {NetworkError}
            \cup {Response(FALSE, "", c, d) : c \in Codes, d \in {Absent, Null} \cup next}
            \cup {Response(FALSE, "", 0, d) : d \in odd}
            \cup {Response(FALSE, "jwt auth err", c, Absent) : c \in Codes}
            \cup {Response(FALSE, "jwt auth err", 0, d) : d \in next}

\* what can resume the await of a submit request: every code with each shape
\* of data, and the auth error next to each code
SubmitResponses ==
    {NetworkError}
        \cup {Response(FALSE, "", c, d) : c \in Codes,
                d \in {Absent, Null, StatusObj(FALSE, FALSE),
                       StatusObj(TRUE, FALSE), StatusObj(TRUE, TRUE)}}
        \cup {Response(FALSE, "jwt auth err", c, Absent) : c \in Codes}
        \cup {Response(FALSE, "jwt auth err", 0, StatusObj(TRUE, TRUE))}

----------------------------------------------------------------------------
\* tokens.txt

Whitespace == {" ", "\n"}

RECURSIVE lstrip(_)
lstrip(s) == IF s # <<>> /\ Head(s) \in Whitespace THEN lstrip(Tail(s)) ELSE s

RECURSIVE rstrip(_)
rstrip(s) ==
    IF s # <<>> /\ s[Len(s)] \in Whitespace THEN rstrip(SubSeq(s, 1, Len(s) - 1)) ELSE s

\* str.strip()
strip(s) == rstrip(lstrip(s))

\* [line.strip() for line in f if line.strip()]
RECURSIVE read_tokens(_)
read_tokens(lines) ==
    IF lines = <<>> THEN <<>>
    ELSE IF strip(Head(lines)) # <<>>
         THEN <<strip(Head(lines))>> \o read_tokens(Tail(lines))
         ELSE read_tokens(Tail(lines))

File(exists, lines) == [exists |-> exists, lines |-> lines]

\* the token files tried: missing, empty, blank lines only, one token, two
\* tokens with padding and a blank line between, the same token twice
TokenFiles ==
    { File(FALSE, <<>>),
      File(TRUE, <<>>),
      File(TRUE, << <<"\n">>, <<" ", "\n">> >>),
      File(TRUE, << <<"a", "\n">> >>),
      File(TRUE, << <<" ", "a", " ", "\n">>, <<"\n">>, <<"b">> >>),
      File(TRUE, << <<"a", "\n">>, <<"a", "\n">> >>) }

----------------------------------------------------------------------------
\* Task Client: classification of the responses

\* fetch_task's return value (task, ok, rate_limit); expired: it appended the
\* token to expired_tokens.txt before returning
FetchOutcome(task, ok, rate_limit, expired) ==
    [task |-> task, ok |-> ok, rate_limit |-> rate_limit, expired |-> expired]

\* fetch_task with the two tests swapped: the code is read before the error
fetch_task_code_first(r) ==
    IF r.exc THEN FetchOutcome(Null, FALSE, FALSE, FALSE)
    ELSE IF r.code = -429 THEN FetchOutcome(Null, FALSE, TRUE, FALSE)
    ELSE IF r.error = "jwt auth err" THEN FetchOutcome(Null, FALSE, FALSE, TRUE)
    ELSE IF r.code = 0
         THEN IF r.data.kind = "absent"
              THEN FetchOutcome(Null, FALSE, FALSE, FALSE)
              ELSE FetchOutcome(r.data, TRUE, FALSE, FALSE)
    ELSE FetchOutcome(Null, FALSE, FALSE, FALSE)

fetch_task(r) ==
    IF r.exc THEN FetchOutcome(Null, FALSE, FALSE, FALSE)
    ELSE IF r.error = "jwt auth err" THEN FetchOutcome(Null, FALSE, FALSE, TRUE)
    ELSE IF r.code = -429 THEN FetchOutcome(Null, FALSE, TRUE, FALSE)
    ELSE IF r.code = 0
         THEN IF r.data.kind = "absent"
              THEN FetchOutcome(Null, FALSE, FALSE, FALSE)   \* KeyError, caught
              ELSE FetchOutcome(r.data, TRUE, FALSE, FALSE)
    ELSE FetchOutcome(Null, FALSE, FALSE, FALSE)

\* submit_results' return value (submitted, rate_limit)
SubmitOutcome(ok, rate_limit) == [submitted |-> ok, rate_limit |-> rate_limit]

\* data.get("data", {}).get("calc_status", False)
calc_status(r) == "calc_status" \in r.data.keys /\ r.data.calc_status

\* submit_results that accepts on the code alone, calc_status unread
submit_results_code_only(r) ==
    IF r.exc THEN SubmitOutcome(FALSE, FALSE)
    ELSE IF r.data.kind = "null" THEN SubmitOutcome(FALSE, FALSE)
    ELSE IF r.code = -429 THEN SubmitOutcome(FALSE, TRUE)
    ELSE IF r.code = 0 THEN SubmitOutcome(TRUE, FALSE)
    ELSE SubmitOutcome(FALSE, FALSE)

submit_results(r) ==
    IF r.exc THEN SubmitOutcome(FALSE, FALSE)
    ELSE IF r.data.kind = "null"
         THEN SubmitOutcome(FALSE, FALSE)   \* None.get: AttributeError, caught
    ELSE IF r.code = -429 THEN SubmitOutcome(FALSE, TRUE)
    ELSE IF r.code = 0 /\ calc_status(r) THEN SubmitOutcome(TRUE, FALSE)
    ELSE SubmitOutcome(FALSE, FALSE)

----------------------------------------------------------------------------
\* Compute Pipeline

\* a quotient num / den, kept as the pair
Quot(num, den) == [num |-> num, den |-> den]

NoResult == [none |-> TRUE, r1 |-> Quot("", 0), r2 |-> Quot(0, "")]

Result(r1, r2) == [none |-> FALSE, r1 |-> r1, r2 |-> r2]

\* line 67 raises out of process_task (it is before the try): task_data is None
\* (TypeError) or lacks one of the three keys (KeyError)
unpack_raises(task) ==
    task.kind # "object" \/ ~({"seed1", "seed2", "matrix_size"} \subseteq task.keys)

\* process_task whose division does not raise on a zero fingerprint (as a
\* numpy float divides): result_1 is infinite
process_task_inf(task, f, instant) ==
    IF task.matrix_size < 0 THEN NoResult
    ELSE Result(Quot("t0", f),
                IF instant THEN Quot(0, "1") ELSE Quot(f, "t1-t0"))

\* lines 68-85 for a task line 67 accepted: f is the fingerprint of the product
\* of the two matrices, instant says t1 = t0
process_task(task, f, instant) ==
    IF task.matrix_size < 0 THEN NoResult     \* np.empty raises, caught
    ELSE IF f = 0 THEN NoResult               \* t0 / f: ZeroDivisionError, caught
    ELSE Result(Quot("t0", f),
                IF instant THEN Quot(0, "1") ELSE Quot(f, "t1-t0"))

----------------------------------------------------------------------------
\* State after the process has started, before main() runs

Workers == DOMAIN tokens

Running == {"launched", "fetching", "computing", "submitting", "backoff", "pacing"}

NoPayload == [result_1 |-> Quot("", 1), result_2 |-> Quot(0, ""), task_id |-> 0]

\* the step of worker w (0: main) that resumed the await op: with response r
\* (a request), with fingerprint f (process_task; -1: none was computed)
Event(w, op, r, f) == [w |-> w, op |-> op, r |-> r, f |-> f]

NoResponse == Response(FALSE, "", 1, Absent)

\* token + "\n" with the newline left out
Line_no_newline(w) == tokens[w]

\* what worker w writes to expired_tokens.txt in one write: token + "\n"
Line(w) == Append(tokens[w], "\n")

\* the reward of one success, in thousandths of a point (0.003)
RewardMilli == 3

\* the fields of the summary line of line 118 (the runtime left out); earned
\* in thousandths of a point
Summary(s, f, t) == [success |-> s, fail |-> f, total |-> t, earned |-> s * RewardMilli]

NoTally == [accepted |-> 0, rejected |-> 0, dropped |-> 0, compute_failed |-> 0]

\* the tally after a submit resumed with r: accepted is what the service
\* answered (code 0 and calc_status true); rejected and dropped are what
\* submit_results reported (neither flag, the rate-limit flag)
Tallied(t, r) ==
    LET out == submit_results(r)
        served == ~r.exc /\ r.code = 0 /\ r.data.kind = "object"
                    /\ "calc_status" \in r.data.keys /\ r.data.calc_status
    IN  [accepted |-> t.accepted + (IF served THEN 1 ELSE 0),
         rejected |-> t.rejected + (IF ~out.submitted /\ ~out.rate_limit THEN 1 ELSE 0),
         dropped |-> t.dropped + (IF out.rate_limit THEN 1 ELSE 0),
         compute_failed |-> t.compute_failed]

\* no call of generate_matrix
NoCall == [seed |-> 0, size |-> 0, matrix |-> <<>>, done |-> FALSE]

Init ==
    /\ tokens_txt \in TokenFiles
    /\ mainPc = "start"
    /\ tokens = <<>>
    /\ pc = <<>>
    /\ success = <<>>
    /\ fail = <<>>
    /\ total = <<>>
    /\ task_data = <<>>
    /\ payload = <<>>
    /\ issued = <<>>
    /\ computed = <<>>
    /\ submitted = <<>>
    /\ sink = <<>>
    /\ event = Event(0, "init", NoResponse, -1)
    /\ summary = <<>>
    /\ tally = <<>>
    /\ gen = NoCall

----------------------------------------------------------------------------
\* Fleet Runner

\* main() up to its await: a missing file or an empty token list returns at
\* once; otherwise gather() makes one task per entry of tokens
MainStart ==
    /\ mainPc = "start"
    /\ LET toks == IF tokens_txt.exists THEN read_tokens(tokens_txt.lines) ELSE <<>>
           each(v) == [w \in DOMAIN toks |-> v]
       IN  IF toks = <<>>
           THEN /\ mainPc' = "returned"
                /\ UNCHANGED <<tokens, wvars>>
           ELSE /\ mainPc' = "gathering"
                /\ tokens' = toks
                /\ pc' = each("launched")
                /\ success' = each(0)
                /\ fail' = each(0)
                /\ total' = each(0)
                /\ task_data' = each(Null)
                /\ payload' = each(NoPayload)
                /\ issued' = each(0)
                /\ computed' = each(<<>>)
                /\ submitted' = each(<<>>)
                /\ summary' = each(<<>>)
                /\ tally' = each(NoTally)
    /\ event' = Event(0, "main", NoResponse, -1)
    /\ UNCHANGED <<tokens_txt, sink, gen>>

\* gather() has a child that raised: the exception leaves main() and
\* asyncio.run(), which cancels every task still pending
MainRaise ==
    /\ mainPc = "gathering"
    /\ \E w \in Workers : pc[w] = "crashed"
    /\ mainPc' = "raised"
    /\ pc' = [w \in Workers |-> IF pc[w] \in Running THEN "cancelled" ELSE pc[w]]
    /\ event' = Event(0, "raise", NoResponse, -1)
    /\ UNCHANGED <<tokens_txt, tokens, success, fail, total, task_data,
                   payload, issued, computed, submitted, sink, summary, tally, gen>>

\* gather() returns when every worker_loop has returned
MainReturn ==
    /\ mainPc = "gathering"
    /\ \A w \in Workers : pc[w] = "stopped"
    /\ mainPc' = "returned"
    /\ event' = Event(0, "return", NoResponse, -1)
    /\ UNCHANGED <<tokens_txt, tokens, wvars, sink, gen>>

----------------------------------------------------------------------------
\* Worker Loop

\* first step of worker_loop: counters set, session opened, first fetch sent
WorkerStart(w) ==
    /\ pc[w] = "launched"
    /\ pc' = [pc EXCEPT ![w] = "fetching"]
    /\ event' = Event(w, "start", NoResponse, -1)
    /\ UNCHANGED <<tokens_txt, mainPc, tokens, success, fail, total, task_data,
                   payload, issued, computed, submitted, sink, summary, tally, gen>>

\* the await of fetch_task's request resumes with r and fetch_task returns to
\* line 93; the step runs to the next await: the backoff sleep, the end of the
\* loop, or process_task's line 67 and its gather
FetchReturn(w, r) ==
    /\ pc[w] = "fetching"
    /\ r \in FetchResponses(issued[w])
    /\ issued' = [issued EXCEPT ![w] = IF r.data.kind = "object" THEN @ + 1 ELSE @]
    /\ LET out == fetch_task(r)
       IN  /\ sink' = IF out.expired THEN Append(sink, Line(w)) ELSE sink
           /\ summary' = [summary EXCEPT ![w] =
                  IF ~out.rate_limit /\ ~out.ok
                  THEN Append(@, Summary(success[w], fail[w], total[w])) ELSE @]
           /\ task_data' = [task_data EXCEPT ![w] = out.task]
           /\ computed' = [computed EXCEPT ![w] =
                  IF out.ok /\ out.task.kind = "object"
                  THEN Append(@, out.task.task_id) ELSE @]
           /\ pc' = [pc EXCEPT ![w] =
                  IF out.rate_limit THEN "backoff"
                  ELSE IF ~out.ok THEN "stopped"
                  ELSE IF unpack_raises(out.task) THEN "crashed"
                  ELSE "computing"]
    /\ event' = Event(w, "fetch", r, -1)
    /\ UNCHANGED <<tokens_txt, mainPc, tokens, success, fail, total, payload,
                   submitted, tally, gen>>

\* ComputeReturn that does not await its submit request: the request is sent
\* and the loop goes straight on to the next fetch
ComputeReturn_pipelined(w, f, instant) ==
    /\ pc[w] = "computing"
    /\ LET result == process_task(task_data[w], f, instant)
       IN  IF result.none
           THEN /\ fail' = [fail EXCEPT ![w] = @ + 1]
                /\ pc' = [pc EXCEPT ![w] = "fetching"]
                /\ tally' = [tally EXCEPT ![w].compute_failed = @ + 1]
                /\ UNCHANGED <<total, payload, submitted>>
           ELSE /\ total' = [total EXCEPT ![w] = @ + 1]
                /\ UNCHANGED <<fail, tally>>
                /\ IF "task_id" \in task_data[w].keys
                   THEN /\ pc' = [pc EXCEPT ![w] = "fetching"]
                        /\ payload' = [payload EXCEPT ![w] =
                               [result_1 |-> result.r1, result_2 |-> result.r2,
                                task_id |-> task_data[w].task_id]]
                        /\ submitted' = [submitted EXCEPT ![w] =
                               Append(@, task_data[w].task_id)]
                   ELSE /\ pc' = [pc EXCEPT ![w] = "crashed"]
                        /\ UNCHANGED <<payload, submitted>>
    /\ event' = Event(w, "compute", NoResponse, IF task_data[w].matrix_size < 0 THEN -1 ELSE f)
    /\ UNCHANGED <<tokens_txt, mainPc, tokens, success, task_data, issued,
                   computed, sink, summary, gen>>

\* ComputeReturn that counts a failed compute as an attempted task too
ComputeReturn_counts_failures(w, f, instant) ==
    /\ pc[w] = "computing"
    /\ LET result == process_task(task_data[w], f, instant)
       IN  /\ total' = [total EXCEPT ![w] = @ + 1]
           /\ IF result.none
              THEN /\ fail' = [fail EXCEPT ![w] = @ + 1]
                   /\ pc' = [pc EXCEPT ![w] = "fetching"]
                   /\ tally' = [tally EXCEPT ![w].compute_failed = @ + 1]
                   /\ UNCHANGED <<payload, submitted>>
              ELSE /\ UNCHANGED <<fail, tally>>
                   /\ IF "task_id" \in task_data[w].keys
                      THEN /\ pc' = [pc EXCEPT ![w] = "submitting"]
                           /\ payload' = [payload EXCEPT ![w] =
                                  [result_1 |-> result.r1, result_2 |-> result.r2,
                                   task_id |-> task_data[w].task_id]]
                           /\ submitted' = [submitted EXCEPT ![w] =
                                  Append(@, task_data[w].task_id)]
                      ELSE /\ pc' = [pc EXCEPT ![w] = "crashed"]
                           /\ UNCHANGED <<payload, submitted>>
    /\ event' = Event(w, "compute", NoResponse, IF task_data[w].matrix_size < 0 THEN -1 ELSE f)
    /\ UNCHANGED <<tokens_txt, mainPc, tokens, success, task_data, issued,
                   computed, sink, summary, gen>>

\* process_task resumes after its gather and returns to line 99; the step runs
\* to the next await: the next fetch, or the submit request of line 106
ComputeReturn(w, f, instant) ==
    /\ pc[w] = "computing"
    /\ LET result == process_task(task_data[w], f, instant)
       IN  IF result.none
           THEN /\ fail' = [fail EXCEPT ![w] = @ + 1]
                /\ pc' = [pc EXCEPT ![w] = "fetching"]
                /\ tally' = [tally EXCEPT ![w].compute_failed = @ + 1]
                /\ UNCHANGED <<total, payload, submitted>>
           ELSE /\ total' = [total EXCEPT ![w] = @ + 1]
                /\ UNCHANGED <<fail, tally>>
                /\ IF "task_id" \in task_data[w].keys
                   THEN /\ pc' = [pc EXCEPT ![w] = "submitting"]
                        /\ payload' = [payload EXCEPT ![w] =
                               [result_1 |-> result.r1, result_2 |-> result.r2,
                                task_id |-> task_data[w].task_id]]
                        /\ submitted' = [submitted EXCEPT ![w] =
                               Append(@, task_data[w].task_id)]
                   ELSE /\ pc' = [pc EXCEPT ![w] = "crashed"]   \* KeyError, line 106
                        /\ UNCHANGED <<payload, submitted>>
    /\ event' = Event(w, "compute", NoResponse, IF task_data[w].matrix_size < 0 THEN -1 ELSE f)
    /\ UNCHANGED <<tokens_txt, mainPc, tokens, success, task_data, issued,
                   computed, sink, summary, gen>>

\* SubmitReturn that retries a rate-limited submit: after the rate limit the
\* same payload is sent again
SubmitReturn_retry(w, r) ==
    /\ pc[w] = "submitting"
    /\ r \in SubmitResponses
    /\ LET out == submit_results(r)
       IN  IF out.rate_limit
           THEN /\ submitted' = [submitted EXCEPT ![w] = Append(@, payload[w].task_id)]
                /\ UNCHANGED <<pc, success, fail, payload>>
           ELSE /\ pc' = [pc EXCEPT ![w] = "pacing"]
                /\ success' = [success EXCEPT ![w] = IF out.submitted THEN @ + 1 ELSE @]
                /\ fail' = [fail EXCEPT ![w] = IF out.submitted THEN @ ELSE @ + 1]
                /\ payload' = [payload EXCEPT ![w] = NoPayload]
                /\ UNCHANGED submitted
    /\ tally' = [tally EXCEPT ![w] = Tallied(@, r)]
    /\ event' = Event(w, "submit", r, -1)
    /\ UNCHANGED <<tokens_txt, mainPc, tokens, total, task_data, issued, computed,
                   sink, summary, gen>>

\* SubmitReturn that skips the pacing sleep after a rejected submit
SubmitReturn_no_pacing(w, r) ==
    /\ pc[w] = "submitting"
    /\ r \in SubmitResponses
    /\ LET out == submit_results(r)
       IN  IF out.rate_limit
           THEN /\ pc' = [pc EXCEPT ![w] = "backoff"]
                /\ UNCHANGED <<success, fail>>
           ELSE /\ pc' = [pc EXCEPT ![w] = IF out.submitted THEN "pacing" ELSE "fetching"]
                /\ success' = [success EXCEPT ![w] = IF out.submitted THEN @ + 1 ELSE @]
                /\ fail' = [fail EXCEPT ![w] = IF out.submitted THEN @ ELSE @ + 1]
    /\ payload' = [payload EXCEPT ![w] = NoPayload]
    /\ tally' = [tally EXCEPT ![w] = Tallied(@, r)]
    /\ event' = Event(w, "submit", r, -1)
    /\ UNCHANGED <<tokens_txt, mainPc, tokens, total, task_data, issued, computed,
                   submitted, sink, summary, gen>>

\* the await of submit_results' request resumes with r and submit_results
\* returns to line 106; the step runs to the sleep of line 108 or of line 114
SubmitReturn(w, r) ==
    /\ pc[w] = "submitting"
    /\ r \in SubmitResponses
    /\ LET out == submit_results(r)
       IN  IF out.rate_limit
           THEN /\ pc' = [pc EXCEPT ![w] = "backoff"]
                /\ UNCHANGED <<success, fail>>
           ELSE /\ pc' = [pc EXCEPT ![w] = "pacing"]
                /\ success' = [success EXCEPT ![w] = IF out.submitted THEN @ + 1 ELSE @]
                /\ fail' = [fail EXCEPT ![w] = IF out.submitted THEN @ ELSE @ + 1]
    /\ payload' = [payload EXCEPT ![w] = NoPayload]
    /\ tally' = [tally EXCEPT ![w] = Tallied(@, r)]
    /\ event' = Event(w, "submit", r, -1)
    /\ UNCHANGED <<tokens_txt, mainPc, tokens, total, task_data, issued, computed,
                   submitted, sink, summary, gen>>

\* asyncio.sleep(3) is over: continue, the next fetch is sent
BackoffDone(w) ==
    /\ pc[w] = "backoff"
    /\ pc' = [pc EXCEPT ![w] = "fetching"]
    /\ event' = Event(w, "backoff", NoResponse, -1)
    /\ UNCHANGED <<tokens_txt, mainPc, tokens, success, fail, total, task_data,
                   payload, issued, computed, submitted, sink, summary, tally, gen>>

\* asyncio.sleep(0.05) is over: the next fetch is sent
PacingDone(w) ==
    /\ pc[w] = "pacing"
    /\ pc' = [pc EXCEPT ![w] = "fetching"]
    /\ event' = Event(w, "pacing", NoResponse, -1)
    /\ UNCHANGED <<tokens_txt, mainPc, tokens, success, fail, total, task_data,
                   payload, issued, computed, submitted, sink, summary, tally, gen>>

----------------------------------------------------------------------------

Next ==
    \/ MainStart
    \/ MainRaise
    \/ MainReturn
    \/ \E w \in Workers : WorkerStart(w)
    \/ \E w \in Workers : \E r \in FetchResponses(issued[w]) : FetchReturn(w, r)
    \/ \E w \in Workers : \E f \in Fingerprints, instant \in BOOLEAN :
            ComputeReturn(w, f, instant)
    \/ \E w \in Workers : \E r \in SubmitResponses : SubmitReturn(w, r)
    \/ \E w \in Workers : BackoffDone(w)
    \/ \E w \in Workers : PacingDone(w)

Spec == Init /\ [][Next]_vars

----------------------------------------------------------------------------
\* generate_matrix

\* a = 0x4b72e682d = 20253141037 and b = 0x2675dcd22 = 10324135202 do not fit
\* the integers of the checker; the recurrence only uses them modulo 1000,
\* and (a * s + b) % 1000 = ((a % 1000) * (s % 1000) + b % 1000) % 1000 for
\* Python's %, whose result has the sign of the divisor
a_mod_1000 == 37
b_mod_1000 == 202

MaxSeed == 1100
MaxSize == 3

\* the remainder that takes the sign of the dividend (C's %, math.fmod)
trunc_mod(x, m) == IF x < 0 THEN -((-x) % m) ELSE x % m

\* line 11 with the truncating remainder
next_value_truncated(current_seed) ==
    trunc_mod(a_mod_1000 * trunc_mod(current_seed, 1000) + b_mod_1000, 1000)

\* line 11: value = (a * current_seed + b) % 1000
next_value(current_seed) ==
    (a_mod_1000 * (current_seed % 1000) + b_mod_1000) % 1000

\* np.empty((size, size)): the cells not written yet hold -1 here
empty(size) == [i \in 1 .. size |-> [j \in 1 .. size |-> -1]]

\* lines 9-13 from cell (i, j) on, rows and columns counted from 1
RECURSIVE fill(_, _, _, _, _)
fill(size, i, j, current_seed, matrix) ==
    IF i > size THEN matrix
    ELSE IF j > size THEN fill(size, i + 1, 1, current_seed, matrix)
    ELSE LET value == next_value(current_seed)
         IN  fill(size, i, j + 1, value, [matrix EXCEPT ![i][j] = value])

generate_matrix(seed, size) == fill(size, 1, 1, seed, empty(size))

\* the calls of generate_matrix looked at: any seed of -MaxSeed .. MaxSeed,
\* any size of 1 .. MaxSize; the rest of the program has not started
InitMatrix ==
    /\ gen \in [seed : -MaxSeed .. MaxSeed, size : 1 .. MaxSize,
                matrix : {<<>>}, done : {FALSE}]
    /\ tokens_txt = File(FALSE, <<>>)
    /\ mainPc = "start"
    /\ tokens = <<>>
    /\ pc = <<>>
    /\ success = <<>>
    /\ fail = <<>>
    /\ total = <<>>
    /\ task_data = <<>>
    /\ payload = <<>>
    /\ issued = <<>>
    /\ computed = <<>>
    /\ submitted = <<>>
    /\ sink = <<>>
    /\ event = Event(0, "init", NoResponse, -1)
    /\ summary = <<>>
    /\ tally = <<>>

\* the call returns
Generate ==
    /\ ~gen.done
    /\ gen' = [gen EXCEPT !.matrix = generate_matrix(gen.seed, gen.size), !.done = TRUE]
    /\ UNCHANGED <<tokens_txt, mainPc, tokens, wvars, sink, event>>

NextMatrix == Generate

SpecMatrix == InitMatrix /\ [][NextMatrix]_vars

----------------------------------------------------------------------------
\* Scheduling

\* the workers a tokens.txt of TokenFiles can give
WorkerIds == 1 .. 2

\* a step of worker w, whichever it is
WorkerStep(w) ==
    /\ w \in Workers
    /\ \/ WorkerStart(w)
       \/ \E r \in FetchResponses(issued[w]) : FetchReturn(w, r)
       \/ \E f \in Fingerprints, instant \in BOOLEAN : ComputeReturn(w, f, instant)
       \/ \E r \in SubmitResponses : SubmitReturn(w, r)
       \/ BackoffDone(w)
       \/ PacingDone(w)

\* the event loop runs every coroutine that is ready: a sleep ends after its
\* delay, a request ends with a response or with the 8 s timeout, and main
\* resumes when gather has its result
FairSpec ==
    /\ Spec
    /\ WF_vars(MainStart \/ MainRaise \/ MainReturn)
    /\ \A w \in WorkerIds : WF_vars(WorkerStep(w))

----------------------------------------------------------------------------
\* Vocabulary of the properties

\* this step is worker w resuming the await op
Step(w, op) == event'.w = w /\ event'.op = op

\* this step is worker w resuming a request with a JSON body
Answered(w, op) == Step(w, op) /\ ~event'.r.exc

\* how often line is in the file s
CountIn(s, line) == Cardinality({i \in DOMAIN s : s[i] = line})

\* the worker is between two cycles, or has left the loop by its break
AtRest(w) == pc[w] \in {"fetching", "pacing", "stopped"}

NoDup(s) == \A i, j \in DOMAIN s : s[i] = s[j] => i = j

----------------------------------------------------------------------------
\* C1 - Rate-limit retry.  Every response with code -429, to a fetch or to a
\* submit, is followed by one backoff sleep, and no task or result is lost or
\* duplicated: once the worker is between two cycles (or has stopped), every
\* task a successful fetch handed out has been counted exactly once, as a
\* success or as a failure.
\* Refuted: after a rate-limited submit the loop continues with a new fetch and
\* the computed result is neither resubmitted nor counted.
RateLimitRetry ==
    \A w \in Workers :
        AtRest(w) => Len(computed[w]) = success[w] + fail[w]

----------------------------------------------------------------------------
\* C2 - Auth-expiry termination.  A fetch answered with error "jwt auth err"
\* stops the worker in that very step: no compute, no submit and no further
\* fetch follows it (a stopped worker takes no step and its state is frozen),
\* and the token's line in the expired-token sink gains exactly one occurrence
\* at each such detection and at no other step.
AuthExpiryStops ==
    [][\A w \in Workers :
          LET detected == Answered(w, "fetch") /\ event'.r.error = "jwt auth err"
              same == {v \in Workers :
                          /\ tokens[v] = tokens[w]
                          /\ Answered(v, "fetch")
                          /\ event'.r.error = "jwt auth err"}
          IN  /\ detected =>
                  /\ pc'[w] = "stopped"
                  /\ sink' = Append(sink, Line(w))
                  /\ computed'[w] = computed[w]
                  /\ submitted'[w] = submitted[w]
              /\ CountIn(sink', Line(w)) = CountIn(sink, Line(w)) + Cardinality(same)
              /\ pc[w] = "stopped" =>
                  /\ event'.w # w
                  /\ pc'[w] = "stopped"
                  /\ <<success'[w], fail'[w], total'[w], computed'[w], submitted'[w]>>
                        = <<success[w], fail[w], total[w], computed[w], submitted[w]>>
      ]_vars

\* a worker stopped by the auth error on its first fetch, its token once in the sink
AuthExpiryStopsWitness ==
    \E w \in Workers :
        /\ pc[w] = "stopped"
        /\ event.w = w /\ event.op = "fetch" /\ event.r.error = "jwt auth err"
        /\ CountIn(sink, Line(w)) = 1
        /\ computed[w] = <<>>

----------------------------------------------------------------------------
\* C3 - Isolation between tokens.  Whatever the service answers to one token
\* (auth expiry, rate limits, network errors, rejected submits, a code 0
\* response whose task is null or lacks a key), the position and the counters
\* of another token's loop change only in that loop's own steps.
\* Refuted: a code 0 fetch response with a null task (or one lacking a seed, the
\* size or the task_id) raises out of worker_loop and of gather, and the
\* process ends with every other worker cancelled.
Isolation ==
    [][\A w \in Workers :
          event'.w # w =>
              <<pc'[w], success'[w], fail'[w], total'[w]>>
                  = <<pc[w], success[w], fail[w], total[w]>>
      ]_vars

----------------------------------------------------------------------------
\* C4 - A response with code -429 is always rate-limited, on fetch and on
\* submit and whatever else the response carries: the worker goes to the
\* backoff sleep, does not stop, does not write the sink and does not count a
\* failure.
\* Refuted: fetch_task tests the auth error before the code, and
\* submit_results reads data.loops before the code, which raises when data is
\* null.
RateLimitedAlways ==
    [][\A w \in Workers :
          (Answered(w, "fetch") \/ Answered(w, "submit")) /\ event'.r.code = -429 =>
              /\ pc'[w] = "backoff"
              /\ sink' = sink
              /\ fail'[w] = fail[w]
      ]_vars

----------------------------------------------------------------------------
\* C5 - A response with error "jwt auth err" always invalidates the token,
\* whichever request it answers: the token is then in the expired-token sink
\* and the worker sends no further fetch.
\* Refuted: submit_results never looks at the error field.
AuthErrAlways ==
    [][\A w \in Workers :
          (Answered(w, "fetch") \/ Answered(w, "submit"))
              /\ event'.r.error = "jwt auth err" =>
                  /\ CountIn(sink', Line(w)) > 0
                  /\ pc'[w] \notin Running
      ]_vars

----------------------------------------------------------------------------
\* C6 - Divide-by-zero guard.  When the fingerprint is 0, process_task returns
\* no result: the step counts one failure, sends no submit and sends the next
\* fetch; and no submit request ever carries a result_1 with divisor 0.
DivideByZeroGuard ==
    [][\A w \in Workers :
          /\ Step(w, "compute") /\ event'.f = 0 =>
                /\ fail'[w] = fail[w] + 1
                /\ <<success'[w], total'[w]>> = <<success[w], total[w]>>
                /\ submitted'[w] = submitted[w]
                /\ payload'[w] = NoPayload
                /\ pc'[w] = "fetching"
          /\ payload'[w].result_1.den # 0
      ]_vars

\* a worker back at its fetch with one failure counted for a zero fingerprint
DivideByZeroGuardWitness ==
    \E w \in Workers :
        /\ event.w = w /\ event.op = "compute" /\ event.f = 0
        /\ pc[w] = "fetching"
        /\ fail[w] = 1
        /\ submitted[w] = <<>>

----------------------------------------------------------------------------
\* C7 - A compute failure is never fatal and never retried.  The compute step
\* of a fetched task (the call of process_task) never ends the worker, and
\* when it yields no result the failure counter goes up by one, no submit is
\* sent and the next step of the worker is a new fetch.
\* Refuted: line 67 reads the task's keys before the try, so a task that is
\* null or lacks a key raises out of process_task and of worker_loop (C3).
ComputeFailureNotFatal ==
    [][\A w \in Workers :
          /\ Step(w, "fetch") /\ fetch_task(event'.r).ok => pc'[w] = "computing"
          /\ Step(w, "compute") /\ total'[w] = total[w] =>
                /\ fail'[w] = fail[w] + 1
                /\ submitted'[w] = submitted[w]
                /\ pc'[w] = "fetching"
      ]_vars

----------------------------------------------------------------------------
\* C8 - A network error on fetch or on submit is recovered locally: the
\* worker is not ended by it, counts it as one failure and goes on to a
\* further fetch.
\* Refuted: a fetch that raises returns (None, False, False), on which the
\* loop breaks without counting anything.
NetworkErrorRecovered ==
    [][\A w \in Workers :
          (Step(w, "fetch") \/ Step(w, "submit")) /\ event'.r.exc =>
              /\ fail'[w] = fail[w] + 1
              /\ pc'[w] \in Running
      ]_vars

----------------------------------------------------------------------------
\* C9 - Termination conditions.  A worker's loop ends exactly in the step of
\* a fetch classified as neither Success nor RateLimited; no compute outcome
\* and no submit outcome ends it, and a rate-limited fetch never does.
\* Refuted: a fetch classified Success whose task is null or lacks a key ends
\* the loop by an exception (in process_task, or at line 106 after the
\* compute), and the exception cancels the other workers wherever they are (C3).
TerminationConditions ==
    [][\A w \in Workers :
          LET out == fetch_task(event'.r)
              final == Step(w, "fetch") /\ ~out.ok /\ ~out.rate_limit
          IN  /\ final => pc'[w] = "stopped"
              /\ pc[w] \in Running /\ pc'[w] \notin Running => final
      ]_vars

----------------------------------------------------------------------------
----------------------------------------------------------------------------
\* the last element of a sequence (0 for the empty one)
Last(s) == IF s = <<>> THEN 0 ELSE s[Len(s)]

\* the worker holds a task: fetched, and neither submitted nor discarded yet
Holding(w) == pc[w] \in {"computing", "submitting"}

\* C11 - One task in flight per token.  A worker is handed a task only while
\* it holds none, and while it holds one it resumes no fetch; the task it
\* holds is the one the last successful fetch returned; and no submit request
\* is pending while the worker fetches, sleeps or has stopped.
OneTaskInFlight ==
    [][\A w \in Workers :
          /\ Holding(w) =>
                /\ ~Step(w, "fetch")
                /\ issued'[w] = issued[w]
                /\ computed'[w] = computed[w]
          /\ pc'[w] = "computing" =>
                /\ task_data'[w].task_id = Last(computed'[w])
                /\ payload'[w] = NoPayload
          /\ pc'[w] = "submitting" => payload'[w].task_id = Last(computed'[w])
          /\ pc'[w] \in {"launched", "fetching", "backoff", "pacing", "stopped"} =>
                payload'[w] = NoPayload
      ]_vars

\* two workers, each holding its own task
OneTaskInFlightWitness ==
    \E w, v \in Workers :
        /\ w # v
        /\ pc[w] = "submitting" /\ payload[w].task_id = 1
        /\ pc[v] = "computing" /\ task_data[v].task_id = 1

----------------------------------------------------------------------------
----------------------------------------------------------------------------
\* the parts of C14 that do not concern the next fetch: a compute starts only
\* in the step of a successful fetch, a submit is sent only by the compute
\* step of the task it carries, and the pacing sleep starts in the step of a
\* submit classified Accepted or Rejected, and only there
FetchComputeSubmitPace(w) ==
    /\ pc'[w] = "computing" /\ pc[w] # "computing" =>
            /\ Step(w, "fetch") /\ pc[w] = "fetching"
            /\ fetch_task(event'.r).ok
    /\ pc'[w] = "submitting" /\ pc[w] # "submitting" =>
            /\ Step(w, "compute") /\ pc[w] = "computing"
            /\ total'[w] = total[w] + 1
            /\ payload'[w].task_id = task_data[w].task_id
    /\ (pc'[w] = "pacing" /\ pc[w] # "pacing")
            <=> (Step(w, "submit") /\ ~submit_results(event'.r).rate_limit)

\* C14 (as claimed) - Strictly sequential fetch, compute, submit, pace, and
\* the next fetch is sent only when the pacing or backoff sleep of the cycle
\* is over (or, for the first fetch, when the worker starts).
\* Refuted: after a compute failure the loop continues with the next fetch at
\* once, with no sleep in that cycle.
StrictOrder ==
    [][\A w \in Workers :
          /\ FetchComputeSubmitPace(w)
          /\ pc'[w] = "fetching" /\ pc[w] # "fetching" =>
                pc[w] \in {"launched", "backoff", "pacing"}
      ]_vars

\* C14 (amended) - as above, except that after a compute failure the next
\* fetch is sent in the very step that counts the failure, without a sleep.
StrictOrderAmended ==
    [][\A w \in Workers :
          /\ FetchComputeSubmitPace(w)
          /\ pc'[w] = "fetching" /\ pc[w] # "fetching" =>
                \/ pc[w] \in {"launched", "backoff", "pacing"}
                \/ /\ pc[w] = "computing" /\ Step(w, "compute")
                   /\ fail'[w] = fail[w] + 1
                   /\ total'[w] = total[w]
      ]_vars

\* a worker fetching again right after a compute failure
StrictOrderAmendedWitness ==
    \E w \in Workers :
        /\ event.w = w /\ event.op = "compute"
        /\ pc[w] = "fetching"
        /\ fail[w] = 1 /\ total[w] = 0

----------------------------------------------------------------------------
\* C19 - Submit classification.  A submit that is not answered with code
\* -429 is Accepted exactly when the body has code 0 and data.calc_status
\* true; anything else (another code, calc_status false or missing, data
\* missing or null, no body at all) is Rejected.  Accepted counts one
\* success, Rejected one failure; either way nothing is sent again, the
\* pacing sleep follows, and after it the next fetch.
SubmitClassification ==
    [][\A w \in Workers :
          LET r == event'.r
              accepted == /\ ~r.exc /\ r.code = 0
                          /\ r.data.kind = "object"
                          /\ "calc_status" \in r.data.keys
                          /\ r.data.calc_status
          IN  /\ Step(w, "submit") /\ (r.exc \/ r.code # -429) =>
                    /\ pc'[w] = "pacing"
                    /\ success'[w] = success[w] + (IF accepted THEN 1 ELSE 0)
                    /\ fail'[w] = fail[w] + (IF accepted THEN 0 ELSE 1)
                    /\ total'[w] = total[w]
                    /\ submitted'[w] = submitted[w]
              /\ Step(w, "pacing") =>
                    /\ pc[w] = "pacing" /\ pc'[w] = "fetching"
                    /\ submitted'[w] = submitted[w]
      ]_vars

\* a submit answered with code 0 and calc_status false, counted as a failure
SubmitClassificationWitness ==
    \E w \in Workers :
        /\ event.w = w /\ event.op = "submit"
        /\ event.r.code = 0 /\ event.r.data = StatusObj(TRUE, FALSE)
        /\ pc[w] = "pacing"
        /\ fail[w] = 1 /\ success[w] = 0

----------------------------------------------------------------------------
----------------------------------------------------------------------------
\* a compute step of w that returned a result (fingerprint not 0, size valid)
ComputeSucceeds(w) == Step(w, "compute") /\ event'.f > 0

\* C20 - Counter relation.  total is incremented exactly in the steps in
\* which a compute returns a result.  In every state where the worker's loop
\* is alive or has stopped and no submit is pending, total = success +
\* rejected submits + submits dropped on rate limit; success <= total in
\* every state; a compute failure raises fail and leaves total alone.
CounterRelation ==
    [][\A w \in Workers :
          /\ total'[w] = total[w] + (IF ComputeSucceeds(w) THEN 1 ELSE 0)
          /\ pc'[w] \in (Running \ {"submitting"}) \cup {"stopped"} =>
                total'[w] = success'[w] + tally'[w].rejected + tally'[w].dropped
          /\ success'[w] <= total'[w]
          /\ Step(w, "compute") /\ ~ComputeSucceeds(w) =>
                fail'[w] = fail[w] + 1 /\ total'[w] = total[w]
      ]_vars

\* two workers at rest, one with more successes and failures than attempted
\* tasks (a compute failure), one with fewer (a submit dropped on rate limit)
CounterRelationWitness ==
    \E v, w \in Workers :
        /\ pc[v] \in {"fetching", "stopped"} /\ pc[w] \in {"fetching", "stopped"}
        /\ success[v] + fail[v] > total[v]
        /\ success[w] + fail[w] < total[w]
        /\ tally[w].dropped = 1

----------------------------------------------------------------------------
\* the content of expired_tokens.txt: the writes one after another
RECURSIVE Concat(_)
Concat(ws) == IF ws = <<>> THEN <<>> ELSE Head(ws) \o Concat(Tail(ws))

\* a text cut at each newline: the complete lines (newline removed), and the
\* characters after the last newline
RECURSIVE SplitLines(_, _)
SplitLines(s, cur) ==
    IF s = <<>> THEN [lines |-> <<>>, rest |-> cur]
    ELSE IF Head(s) = "\n"
         THEN LET t == SplitLines(Tail(s), <<>>)
              IN  [lines |-> <<cur>> \o t.lines, rest |-> t.rest]
         ELSE SplitLines(Tail(s), Append(cur, Head(s)))

\* the step in which worker w finds its token expired
Detects(w) == Step(w, "fetch") /\ fetch_task(event'.r).expired

\* C15 - Line-atomic appends.  Whatever the interleaving of the workers, the
\* expired-token file always ends at a line end; a step in which a worker
\* detects auth expiry adds exactly one line, that worker's token, after the
\* lines already there; no other step changes the lines; so every line is
\* one whole token and there is one line per detection.
LineAtomicAppends ==
    [][LET before == SplitLines(Concat(sink), <<>>)
           after == SplitLines(Concat(sink'), <<>>)
       IN  /\ after.rest = <<>>
           /\ \A w \in Workers :
                 Detects(w) => after.lines = Append(before.lines, tokens[w])
           /\ (~\E w \in Workers : Detects(w)) => after.lines = before.lines
           /\ \A i \in DOMAIN after.lines :
                 \E w \in DOMAIN tokens' : after.lines[i] = tokens'[w]
      ]_vars

\* two workers with different tokens have both detected expiry: two lines
LineAtomicAppendsWitness ==
    /\ Len(sink) = 2
    /\ sink[1] # sink[2]
    /\ \A w \in Workers : pc[w] = "stopped"
    /\ Len(SplitLines(Concat(sink), <<>>).lines) = 2

----------------------------------------------------------------------------
\* the number of lines of tokens.txt that are not blank (0 without the file)
TokenLines ==
    IF tokens_txt.exists
    THEN Cardinality({i \in DOMAIN tokens_txt.lines : strip(tokens_txt.lines[i]) # <<>>})
    ELSE 0

\* C17 - Fleet Runner.  Once main has read the token source there is one
\* worker per non-blank line (none when the source is missing or has no such
\* line), each with the trimmed line as its token; and main has finished
\* only when every worker it launched is stopped.
FleetRunner ==
    /\ mainPc # "start" =>
          /\ Cardinality(Workers) = TokenLines
          /\ \A w \in Workers :
                \E i \in DOMAIN tokens_txt.lines : tokens[w] = strip(tokens_txt.lines[i])
    /\ mainPc \in {"returned", "raised"} =>
          \A w \in Workers : pc[w] = "stopped"

----------------------------------------------------------------------------
\* worker w exists and is at one of the places of S
At(w, S) == w \in Workers /\ pc[w] \in S

\* C16 - No stalling.  Under fair scheduling a running worker in the middle
\* of a cycle reaches the end of the cycle (the next fetch is sent) or stops,
\* and a worker waiting for its fetch response gets it and goes on (backoff,
\* compute) or stops, whatever the other workers do meanwhile.
NoStall ==
    \A w \in WorkerIds :
        /\ At(w, Running \ {"fetching"}) ~> At(w, {"fetching", "stopped"})
        /\ At(w, {"fetching"}) ~> At(w, {"backoff", "computing", "stopped"})

----------------------------------------------------------------------------
\* the entries of a matrix in row-major order
Flat(matrix, size) == [k \in 1 .. size * size |-> matrix[((k - 1) \div size) + 1][((k - 1) % size) + 1]]

\* C18 - Range and recurrence of generate_matrix.  For every seed and every
\* size >= 1 the result is size x size, every entry is a whole number of
\* 0 .. 999, the first entry is (a * seed + b) mod 1000 and every later
\* entry, in row-major order and across row ends, is (a * previous entry + b)
\* mod 1000 (a = 37 and b = 202 modulo 1000).
MatrixRangeAndChain ==
    gen.done =>
        LET size == gen.size
            flat == Flat(gen.matrix, size)
        IN  /\ size >= 1
            /\ DOMAIN gen.matrix = 1 .. size
            /\ \A i \in 1 .. size : DOMAIN gen.matrix[i] = 1 .. size
            /\ \A k \in DOMAIN flat : flat[k] \in 0 .. 999
            /\ flat[1] = (37 * gen.seed + 202) % 1000
            /\ \A k \in 2 .. size * size : flat[k] = (37 * flat[k - 1] + 202) % 1000

\* a matrix of more than one row made from a negative seed
MatrixRangeAndChainWitness ==
    /\ gen.done
    /\ gen.seed < -1000
    /\ gen.size = 2
    /\ gen.matrix[2][1] = (37 * gen.matrix[1][2] + 202) % 1000

====
